---- MODULE Spec2Model ----
(***************************************************************************)
(* A model of cssSelectorBuilder (src/src/05-objects-tasks.js).            *)
(*                                                                         *)
(* The heap is a sequence of JavaScript objects.  Each object has a        *)
(* prototype link and a record of own properties; a property read walks    *)
(* the prototype chain, a property write creates or replaces an own        *)
(* property.  Object 1 is the object literal cssSelectorBuilder.  Its       *)
(* strings are TLA+ strings and \o is JavaScript's string concatenation;   *)
(* the strings of getJSON and fromJSON are sequences of code units.        *)
(***************************************************************************)
EXTENDS Integers, Sequences, FiniteSets, TLC

(* ------------------------------ bounds --------------------------------- *)

\* Largest number of objects on the heap (the entry point included) when any
\* method is called on any object.
MaxObjects == 3

\* Largest number of category calls the two chains make together.
MaxCalls == 4

\* Largest number of objects on the heap (the entry point included) when
\* every call is made on the entry point.
MaxFacadeObjects == 6

\* The values passed to the category methods.
Values == {"a"}

\* The selectors copyBuilder is called with directly: a category that occurs
\* once, one that repeats, and a string that is no category.
Selectors == {"id", "class", "foo"}

\* The combinator symbols passed to combine.
Combinators == {"+"}

\* The combinator symbols passed to combine when every call is made on the
\* entry point.
FacadeCombinators == {"+", " "}

\* The category methods called when every call is made on the entry point.
FacadeMethods == {"element", "id"}

\* The two call sites that build a chain each.
Chains == {1, 2}

\* Largest absolute value of a width or a height given to Rectangle.
MaxNumber == 3

\* Largest number of properties of an object given to getJSON.
MaxProperties == 2

\* The numbers that are property values of the objects given to getJSON.
JSONNumbers == {-3, 20}

(* --------------------------- program constants ------------------------- *)

correctOrder == <<"element", "id", "class", "attr", "pseudoClass", "pseudoElement">>

Categories == {correctOrder[i] : i \in 1..Len(correctOrder)}

DuplicateError ==
    "Element, id and pseudo-element should not occur more then one time inside the selectord"

OrderError ==
    "Selector parts should be arranged in the following order: element, id, class, attribute, pseudo-class, pseudo-element"

\* The heap address of the object literal, and the null prototype.
cssSelectorBuilder == 1
Null == 0

(* ------------------------------ variables ------------------------------ *)

VARIABLES
    heap,      \* the objects: heap[o] = [proto |-> address, own |-> record]
    last,      \* the call made last: its receiver, its arguments and its result
    steps,     \* steps[c]: the category calls chain c has made so far, in call order
    cur,       \* cur[c]: the object chain c holds (the receiver of its next call)
    outcome,   \* outcome[c]: whether chain c is running, has returned a text or has thrown
    rect,      \* the object Rectangle returned, and what was done with it last
    json       \* the object given to getJSON, its text, and what fromJSON made of it

vars == <<heap, last, steps, cur, outcome, rect, json>>

(* ------------------------- JavaScript objects -------------------------- *)

\* o.f : the own property if there is one, else the prototype's.
RECURSIVE Get(_, _, _)
Get(h, o, f) ==
    IF f \in DOMAIN h[o].own THEN h[o].own[f] ELSE Get(h, h[o].proto, f)

\* o.f = v : always writes an own property of o.
Put(h, o, f, v) ==
    [h EXCEPT ![o].own =
        IF f \in DOMAIN @ THEN [@ EXCEPT ![f] = v]
        ELSE [g \in (DOMAIN @) \cup {f} |-> IF g = f THEN v ELSE @[g]]]

\* Object.create(p) : a new object with prototype p and no own property.
ObjectCreate(h, p) == Append(h, [proto |-> p, own |-> <<>>])

\* Array.prototype.indexOf : the zero-based position of x in arr, or -1.
indexOf(arr, x) ==
    IF \E i \in 1..Len(arr) : arr[i] = x
    THEN (CHOOSE i \in 1..Len(arr) : arr[i] = x /\ \A j \in 1..(i - 1) : arr[j] # x) - 1
    ELSE -1

\* The three data properties of an object, as the object sees them.
State(h, o) ==
    [cssCode      |-> Get(h, o, "cssCode"),
     lastSelector |-> Get(h, o, "lastSelector"),
     lastOrder    |-> Get(h, o, "lastOrder")]

(* ------------------------- cssSelectorBuilder -------------------------- *)

\* The object literal: cssCode: '', lastSelector: '', lastOrder: -1.
EntryPoint ==
    [proto |-> Null,
     own   |-> [cssCode |-> "", lastSelector |-> "", lastOrder |-> -1]]

\* Faulty variants of getLastElemError: one forgets element, one forgets
\* pseudoElement.
getLastElemErrorNoElement(h, this, selector) ==
    \/ (selector = "id" /\ selector = Get(h, this, "lastSelector"))
    \/ (selector = "pseudoElement" /\ selector = Get(h, this, "lastSelector"))

getLastElemErrorNoPseudoElement(h, this, selector) ==
    \/ (selector = "id" /\ selector = Get(h, this, "lastSelector"))
    \/ (selector = "element" /\ selector = Get(h, this, "lastSelector"))

getLastElemError(h, this, selector) ==
    \/ (selector = "id" /\ selector = Get(h, this, "lastSelector"))
    \/ (selector = "element" /\ selector = Get(h, this, "lastSelector"))
    \/ (selector = "pseudoElement" /\ selector = Get(h, this, "lastSelector"))

\* Faulty variants of incorrectOrder: one compares the wrong way round, one
\* compares with the rank of the first category instead of the last one's.
incorrectOrderReversed(h, this, selector) ==
    /\ Get(h, this, "lastOrder") # -1
    /\ indexOf(correctOrder, selector) > Get(h, this, "lastOrder")

incorrectOrderFirstRank(h, this, selector) ==
    /\ Get(h, this, "lastOrder") # -1
    /\ indexOf(correctOrder, selector) < 0

incorrectOrder(h, this, selector) ==
    /\ Get(h, this, "lastOrder") # -1
    /\ indexOf(correctOrder, selector) < Get(h, this, "lastOrder")

\* Faulty variants of copyBuilder: one puts the new fragment before the
\* accumulated text, one works on the receiver itself instead of a copy.
copyBuilderPrepend(h, this, value, selector) ==
    LET copiesSelectorBuilder == Len(h) + 1
        h0 == ObjectCreate(h, this)
    IN  IF getLastElemError(h0, copiesSelectorBuilder, selector)
        THEN [threw |-> TRUE, error |-> DuplicateError, heap |-> h, ret |-> Null]
        ELSE IF incorrectOrder(h0, copiesSelectorBuilder, selector)
        THEN [threw |-> TRUE, error |-> OrderError, heap |-> h, ret |-> Null]
        ELSE LET h1 == Put(h0, copiesSelectorBuilder, "lastOrder",
                           indexOf(correctOrder, selector))
                 h2 == Put(h1, copiesSelectorBuilder, "lastSelector", selector)
                 h3 == Put(h2, copiesSelectorBuilder, "cssCode",
                           value \o Get(h2, copiesSelectorBuilder, "cssCode"))
             IN  [threw |-> FALSE, error |-> "", heap |-> h3,
                  ret |-> copiesSelectorBuilder]

copyBuilderInPlace(h, this, value, selector) ==
    IF getLastElemError(h, this, selector)
    THEN [threw |-> TRUE, error |-> DuplicateError, heap |-> h, ret |-> Null]
    ELSE IF incorrectOrder(h, this, selector)
    THEN [threw |-> TRUE, error |-> OrderError, heap |-> h, ret |-> Null]
    ELSE LET h1 == Put(h, this, "lastOrder", indexOf(correctOrder, selector))
             h2 == Put(h1, this, "lastSelector", selector)
             h3 == Put(h2, this, "cssCode", Get(h2, this, "cssCode") \o value)
         IN  [threw |-> FALSE, error |-> "", heap |-> h3, ret |-> this]

\* copyBuilder returns normally with the new object, or throws.  The object
\* made by Object.create is referenced by nothing when copyBuilder throws,
\* so the heap the caller is left with is the one it passed.
copyBuilder(h, this, value, selector) ==
    LET copiesSelectorBuilder == Len(h) + 1
        h0 == ObjectCreate(h, this)
    IN  IF getLastElemError(h0, copiesSelectorBuilder, selector)
        THEN [threw |-> TRUE, error |-> DuplicateError, heap |-> h, ret |-> Null]
        ELSE IF incorrectOrder(h0, copiesSelectorBuilder, selector)
        THEN [threw |-> TRUE, error |-> OrderError, heap |-> h, ret |-> Null]
        ELSE LET h1 == Put(h0, copiesSelectorBuilder, "lastOrder",
                           indexOf(correctOrder, selector))
                 h2 == Put(h1, copiesSelectorBuilder, "lastSelector", selector)
                 h3 == Put(h2, copiesSelectorBuilder, "cssCode",
                           Get(h2, copiesSelectorBuilder, "cssCode") \o value)
             IN  [threw |-> FALSE, error |-> "", heap |-> h3,
                  ret |-> copiesSelectorBuilder]

\* A faulty variant of stringify: it forgets to reset lastSelector.
stringifyKeepsSelector(h, this) ==
    LET copiesCSSCode == Get(h, this, "cssCode")
        h1 == Put(h, this, "cssCode", "")
        h2 == Put(h1, this, "lastOrder", -1)
    IN  [ret |-> copiesCSSCode, heap |-> h2]

stringify(h, this) ==
    LET copiesCSSCode == Get(h, this, "cssCode")
        h1 == Put(h, this, "cssCode", "")
        h2 == Put(h1, this, "lastOrder", -1)
        h3 == Put(h2, this, "lastSelector", "")
    IN  [ret |-> copiesCSSCode, heap |-> h3]

element(h, this, value) == copyBuilder(h, this, value, "element")

id(h, this, value) == copyBuilder(h, this, "#" \o value, "id")

class(h, this, value) == copyBuilder(h, this, "." \o value, "class")

attr(h, this, value) == copyBuilder(h, this, "[" \o value \o "]", "attr")

pseudoClass(h, this, value) == copyBuilder(h, this, ":" \o value, "pseudoClass")

pseudoElement(h, this, value) == copyBuilder(h, this, "::" \o value, "pseudoElement")

\* A faulty variant of combine: it gives the combined text the category of an
\* element.
combineAsElement(h, this, selector1, combinator, selector2) ==
    LET sel1 == stringify(h, selector1)
        sel2 == stringify(sel1.heap, selector2)
    IN  copyBuilder(sel2.heap, this,
                    sel1.ret \o " " \o combinator \o " " \o sel2.ret, "element")

\* A faulty variant of combine: it leaves out the spaces around the combinator.
combineNoSpaces(h, this, selector1, combinator, selector2) ==
    LET sel1 == stringify(h, selector1)
        sel2 == stringify(sel1.heap, selector2)
    IN  copyBuilder(sel2.heap, this, sel1.ret \o combinator \o sel2.ret, "")

combine(h, this, selector1, combinator, selector2) ==
    LET sel1 == stringify(h, selector1)
        sel2 == stringify(sel1.heap, selector2)
    IN  copyBuilder(sel2.heap, this,
                    sel1.ret \o " " \o combinator \o " " \o sel2.ret, "")

\* The call this[method](value) for one of the six category methods.
CallCategory(h, this, method, value) ==
    CASE method = "element"       -> element(h, this, value)
      [] method = "id"            -> id(h, this, value)
      [] method = "class"         -> class(h, this, value)
      [] method = "attr"          -> attr(h, this, value)
      [] method = "pseudoClass"   -> pseudoClass(h, this, value)
      [] method = "pseudoElement" -> pseudoElement(h, this, value)

(* ------------------------------ Rectangle ------------------------------ *)

\* Rectangle(width, height): the object literal { width, height, getArea }
\* and the parameters, which stay in the scope getArea is defined in.
Rectangle(width, height) ==
    [obj   |-> [width |-> width, height |-> height],
     scope |-> [width |-> width, height |-> height]]

\* A faulty variant of getArea: it multiplies the parameters of Rectangle.
getAreaOfParameters(r) == r.scope.width * r.scope.height

\* obj.getArea(): this.width * this.height
getArea(r) == r.obj.width * r.obj.height

(* --------------------------- getJSON, fromJSON -------------------------- *)

(* A JavaScript string is the sequence of its UTF-16 code units, so a key   *)
(* and a JSON text are sequences of numbers.  A JavaScript value is         *)
(* undefined, null, a boolean, a number, a string, a function, an array or  *)
(* an object.  A number is a double: NaN, an infinity, or a finite number   *)
(* with its sign, written by the shortest decimal that rounds to it.  An    *)
(* array is the sequence of its items; an object is the sequence of its     *)
(* own enumerable properties [key, value] in enumeration order: the array   *)
(* indices in ascending order, then the other keys in the order they were   *)
(* added in.  An object inherits from Object.prototype.                     *)

\* The printable characters of ASCII, from code 32 on; the grave accent,
\* which a TLA+ string cannot hold, has its name for a place holder.
Ascii ==
    <<" ", "!", "\"", "#", "$", "%", "&", "'", "(", ")",
      "*", "+", ",", "-", ".", "/", "0", "1", "2", "3",
      "4", "5", "6", "7", "8", "9", ":", ";", "<", "=",
      ">", "?", "@", "A", "B", "C", "D", "E", "F", "G",
      "H", "I", "J", "K", "L", "M", "N", "O", "P", "Q",
      "R", "S", "T", "U", "V", "W", "X", "Y", "Z", "[",
      "\\", "]", "^", "_", "grave accent", "a", "b", "c", "d", "e",
      "f", "g", "h", "i", "j", "k", "l", "m", "n", "o",
      "p", "q", "r", "s", "t", "u", "v", "w", "x", "y",
      "z", "{", "|", "}", "~">>

\* The code unit of a printable ASCII character.
Code(c) == 31 + CHOOSE i \in 1..Len(Ascii) : Ascii[i] = c

\* The string literal with the characters cs.
Codes(cs) == [i \in 1..Len(cs) |-> Code(cs[i])]

Quote == Code("\"")

Backslash == Code("\\")

Minus == Code("-")

Dot == Code(".")

Comma == Code(",")

Colon == Code(":")

Zero == Code("0")

Undefined == [type |-> "undefined"]

JSNull == [type |-> "null"]

Boolean(b) == [type |-> "boolean", b |-> b]

\* A number is an IEEE 754 double.  A finite one is written by the digits
\* of the shortest decimal that rounds to it (the most significant first,
\* none for zero, no zero at either end) and a power of ten: it is the
\* integer the digits write times 10^exp.  Zero has a sign.
Finite(neg, digits, exp) ==
    [type |-> "number", kind |-> "finite", neg |-> neg, digits |-> digits, exp |-> exp]

SignedZero(neg) == Finite(neg, <<>>, 0)

NaN == [type |-> "number", kind |-> "NaN", neg |-> FALSE, digits |-> <<>>, exp |-> 0]

Infinity(neg) ==
    [type |-> "number", kind |-> "Infinity", neg |-> neg, digits |-> <<>>, exp |-> 0]

(* Natural numbers of any size, as their decimal digits from the least     *)
(* significant one on, without a zero at the end; no digits for zero.       *)

Min2(a, b) == IF a < b THEN a ELSE b

Max2(a, b) == IF a > b THEN a ELSE b

Reverse(s) == [i \in 1..Len(s) |-> s[Len(s) + 1 - i]]

\* The digits a without the zeros at its end.
Trim(a) ==
    LET top == CHOOSE i \in 0..Len(a) :
                   /\ i = 0 \/ a[i] # 0
                   /\ \A j \in (i + 1)..Len(a) : a[j] = 0
    IN  SubSeq(a, 1, top)

\* -1, 0 or 1 as a[lo..hi] is less than, equal to or greater than b[lo..hi].
RECURSIVE CmpRange(_, _, _, _)
CmpRange(a, b, lo, hi) ==
    IF lo > hi THEN 0
    ELSE IF lo = hi
         THEN (IF a[lo] < b[lo] THEN -1 ELSE IF a[lo] > b[lo] THEN 1 ELSE 0)
    ELSE LET mid == (lo + hi) \div 2
             top == CmpRange(a, b, mid + 1, hi)
         IN  IF top # 0 THEN top ELSE CmpRange(a, b, lo, mid)

BigCmp(a, b) ==
    IF Len(a) < Len(b) THEN -1
    ELSE IF Len(a) > Len(b) THEN 1
    ELSE CmpRange(a, b, 1, Len(a))

\* The sum of a[j] * b[i + 1 - j] for j in lo..hi.
RECURSIVE SumProducts(_, _, _, _, _)
SumProducts(a, b, i, lo, hi) ==
    IF lo > hi THEN 0
    ELSE IF lo = hi THEN a[lo] * b[i + 1 - lo]
    ELSE LET mid == (lo + hi) \div 2
         IN  SumProducts(a, b, i, lo, mid) + SumProducts(a, b, i, mid + 1, hi)

\* The carry into each of the places lo..hi of c and the carry out of
\* them, for the carry cin into lo.
RECURSIVE Carries(_, _, _, _)
Carries(c, lo, hi, cin) ==
    IF lo = hi THEN [ins |-> <<cin>>, out |-> (c[lo] + cin) \div 10]
    ELSE LET mid   == (lo + hi) \div 2
             left  == Carries(c, lo, mid, cin)
             right == Carries(c, mid + 1, hi, left.out)
         IN  [ins |-> left.ins \o right.ins, out |-> right.out]

RECURSIVE SmallDigits(_)
SmallDigits(n) == IF n = 0 THEN <<>> ELSE <<n % 10>> \o SmallDigits(n \div 10)

\* The number the digits a write, which is a small one.
RECURSIVE NaturalOf(_)
NaturalOf(a) == IF a = <<>> THEN 0 ELSE Head(a) + 10 * NaturalOf(Tail(a))

\* The digits of the number with c[i] at the place i, each c[i] a natural
\* number of any size.
Normalise(c) ==
    IF Len(c) = 0 THEN <<>>
    ELSE LET k == Carries(c, 1, Len(c), 0)
         IN  Trim([i \in 1..Len(c) |-> (c[i] + k.ins[i]) % 10] \o SmallDigits(k.out))

BigMul(a, b) ==
    IF a = <<>> \/ b = <<>> THEN <<>>
    ELSE LET columns == [i \in 1..(Len(a) + Len(b) - 1) |->
                            SumProducts(a, b, i, Max2(1, i + 1 - Len(b)), Min2(i, Len(a)))]
         IN  Normalise(columns \o <<>>)

BigAdd(a, b) ==
    Normalise([i \in 1..Max2(Len(a), Len(b)) |->
                  (IF i <= Len(a) THEN a[i] ELSE 0) + (IF i <= Len(b) THEN b[i] ELSE 0)])

\* a * 10^n
Shift(a, n) == IF a = <<>> \/ n <= 0 THEN a ELSE [i \in 1..n |-> 0] \o a

RECURSIVE Pow2(_)
Pow2(n) ==
    IF n <= 0 THEN <<1>>
    ELSE LET half   == Pow2(n \div 2)
             square == BigMul(half, half)
         IN  IF n % 2 = 0 THEN square ELSE BigMul(square, <<2>>)

\* The first p digits, the most significant first, of the quotient of num
\* by den, which has at most p digits, after the digits prefix.
RECURSIVE QuotientDigits(_, _, _, _)
QuotientDigits(num, den, prefix, p) ==
    IF p = 0 THEN prefix
    ELSE LET fits(x) ==
                 BigCmp(Shift(BigMul(Trim(Reverse(Append(prefix, x))), den), p - 1),
                        num) <= 0
             x == Cardinality({y \in 1..9 : fits(y)})
         IN  QuotientDigits(num, den, Append(prefix, x), p - 1)

(* IEEE 754 doubles: m * 2^e with m < 2^53 and -1074 <= e <= 971.           *)

MantissaBits == 53

MinExponent == -1074

MaxExponent == 971

\* The shortest decimals have at most 17 digits.
MaxDigits == 17

\* The digits without the zeros at their ends, and the power of ten that
\* makes up for the zeros taken from the right end.
Canonical(digits, exp) ==
    LET nonzero == {i \in 1..Len(digits) : digits[i] # 0}
        lead    == CHOOSE i \in nonzero : \A j \in nonzero : i <= j
        trail   == CHOOSE i \in nonzero : \A j \in nonzero : i >= j
    IN  IF nonzero = {} THEN [digits |-> <<>>, exp |-> 0]
        ELSE [digits |-> SubSeq(digits, lead, trail),
              exp    |-> exp + (Len(digits) - trail)]

(* Each step below takes what the steps before it found as parameters.     *)

\* a * 2^n when n > 0, and a otherwise.
ScaleUp(a, n) == IF n > 0 THEN BigMul(a, Pow2(n)) ELSE a

IsOdd(a) == a # <<>> /\ a[1] % 2 = 1

\* num / den >= 2^c
AtLeastPow2(num, den, c) == BigCmp(ScaleUp(num, -c), ScaleUp(den, c)) >= 0

\* The exponent of the double nearest to num / den, which is not zero: with
\* 2^b <= num / den < 2^(b + 1) it is b - 52, and -1074 at least.  b is
\* looked for from the power of ten e10 on, 10^e10 <= num / den < 10^(e10 + 1).
BinaryExponent(num, den, e10) ==
    LET low == ((e10 * 3321928) \div 1000000) - 1
        b   == (low - 1) + Cardinality({c \in low..(low + 6) : AtLeastPow2(num, den, c)})
    IN  Max2(b - (MantissaBits - 1), MinExponent)

\* The mantissa m with the exponent e, with m brought below 2^53.
Mantissa(m, e) ==
    IF m = Pow2(MantissaBits)
    THEN [m |-> Pow2(MantissaBits - 1), e |-> e + 1]
    ELSE [m |-> m, e |-> e]

\* The quotient q of n by d, rounded to the nearest integer: half is -1, 0
\* or 1 as n / d is below, at or above q + 1/2, and a tie goes to the even.
RoundHalfEven(q, half, e) ==
    Mantissa(IF half > 0 \/ (half = 0 /\ IsOdd(q)) THEN BigAdd(q, <<1>>) ELSE q, e)

RoundQuotient(n, d, q, e) ==
    RoundHalfEven(q, BigCmp(BigMul(n, <<2>>),
                            BigMul(BigAdd(BigMul(q, <<2>>), <<1>>), d)), e)

\* The integer nearest to n / d, which is below 2^53.
NearestInteger(n, d, e) ==
    RoundQuotient(n, d, Trim(Reverse(QuotientDigits(n, d, <<>>, 16))), e)

\* The double with the exponent e nearest to num / den.
NearestMantissa(num, den, e) == NearestInteger(ScaleUp(num, -e), ScaleUp(den, e), e)

\* The double nearest to num / den, which is not zero: its mantissa m and
\* its exponent e.
NearestDouble(num, den, e10) ==
    NearestMantissa(num, den, BinaryExponent(num, den, e10))

\* The number written by the first p of the digits, and the next one.
Floor(digits, p) == Trim(Reverse(SubSeq(digits, 1, p)))

Ceiling(digits, p) == BigAdd(Floor(digits, p), <<1>>)

\* The double m * 2^e as the fraction a / b, with what its neighbours need:
\* four times a and b, the unit of the mantissa over b, half the gap to the
\* double below in quarters of the unit (the gap is half as wide below a
\* power of two), and whether the mantissa is even.
Fraction(m, e, a, b) ==
    [a     |-> a,
     b     |-> b,
     a4    |-> BigMul(a, <<4>>),
     b4    |-> BigMul(b, <<4>>),
     unit  |-> Pow2(e),
     below |-> IF m = Pow2(MantissaBits - 1) /\ e > MinExponent THEN <<1>> ELSE <<2>>,
     even  |-> ~IsOdd(m)]

\* r * 10^j rounds to the double d: it is within half the gap to the double
\* below and half the gap to the double above, or at an end of that range
\* when the mantissa is even.
Rounds(r, j, d) ==
    LET c  == Shift(BigMul(r, d.b4), j)
        lo == BigCmp(BigAdd(c, Shift(BigMul(d.unit, d.below), -j)), Shift(d.a4, -j))
        hi == BigCmp(c, BigAdd(Shift(d.a4, -j), Shift(BigMul(d.unit, <<2>>), -j)))
    IN  /\ lo > 0 \/ (lo = 0 /\ d.even)
        /\ hi < 0 \/ (hi = 0 /\ d.even)

\* The least number of digits from p on with which a decimal rounds to d,
\* whose digits are all and whose power of ten is ev.
RECURSIVE ShortestLength(_, _, _, _)
ShortestLength(all, ev, d, p) ==
    IF \/ p = MaxDigits
       \/ Rounds(Floor(all, p), ev - p + 1, d)
       \/ Rounds(Ceiling(all, p), ev - p + 1, d)
    THEN p
    ELSE ShortestLength(all, ev, d, p + 1)

\* Of the decimals floor * 10^j and ceiling * 10^j, one of which rounds to
\* d, the one that does, and of two the one nearer to d: middle is -1, 0 or
\* 1 as d is below, at or above the middle of the two.
Nearer(floor, ceiling, j, d) ==
    LET middle == BigCmp(Shift(BigMul(d.a, <<2>>), -j),
                         Shift(BigMul(BigAdd(BigMul(floor, <<2>>), <<1>>), d.b), j))
    IN  IF ~Rounds(ceiling, j, d) THEN floor
        ELSE IF ~Rounds(floor, j, d) THEN ceiling
        ELSE IF middle < 0 THEN floor
        ELSE IF middle > 0 THEN ceiling
        ELSE IF IsOdd(floor) THEN ceiling
        ELSE floor

ShortestOfLength(all, ev, d, p) ==
    Canonical(Reverse(Nearer(Floor(all, p), Ceiling(all, p), ev - p + 1, d)), ev - p + 1)

ShortestOfDigits(all, ev, d) == ShortestOfLength(all, ev, d, ShortestLength(all, ev, d, 1))

\* The first 17 digits of d, whose power of ten is ev, give the decimals to
\* choose from.
ShortestAt(d, ev) ==
    ShortestOfDigits(QuotientDigits(Shift(d.a, (MaxDigits - 1) - ev),
                                    Shift(d.b, ev - (MaxDigits - 1)), <<>>, MaxDigits),
                     ev, d)

\* The power of ten ev of a / b, 10^ev <= a / b < 10^(ev + 1), which is
\* within one of e10.
DecimalExponent(a, b, e10) ==
    (e10 - 2) + Cardinality({c \in (e10 - 1)..(e10 + 1) :
                                BigCmp(Shift(a, -c), Shift(b, c)) >= 0})

ShortestOfFraction(d, e10) == ShortestAt(d, DecimalExponent(d.a, d.b, e10))

\* The shortest decimal that rounds to the double m * 2^e, and of several
\* the one nearest to it: its digits and its power of ten.  e10 is within
\* one of the power of ten of the double.
ShortestDecimal(m, e, e10) ==
    ShortestOfFraction(Fraction(m, e, ScaleUp(m, e), Pow2(-e)), e10)

FiniteOf(neg, decimal) == Finite(neg, decimal.digits, decimal.exp)

\* The number of the double d, which is zero when the decimal is below half
\* the least double and infinite when d is above the greatest.
NumberOf(neg, d, e10) ==
    IF d.m = <<>> THEN SignedZero(neg)
    ELSE IF d.e > MaxExponent THEN Infinity(neg)
    ELSE FiniteOf(neg, ShortestDecimal(d.m, d.e, e10))

\* A decimal of at most 15 digits within the range of the normal doubles is
\* the shortest one that rounds to its double.
Rounded(neg, c, e10) ==
    IF c.digits = <<>> THEN SignedZero(neg)
    ELSE IF Len(c.digits) <= 15 /\ e10 >= -307 /\ e10 <= 307
         THEN Finite(neg, c.digits, c.exp)
    ELSE IF e10 >= 309 THEN Infinity(neg)
    ELSE IF e10 <= -325 THEN SignedZero(neg)
    ELSE NumberOf(neg, NearestDouble(Shift(Reverse(c.digits), c.exp),
                                     Shift(<<1>>, -c.exp), e10), e10)

RoundedCanonical(neg, c) == Rounded(neg, c, Len(c.digits) + c.exp - 1)

\* The double nearest to the decimal digits * 10^exp, the digits with the
\* most significant first.
ToDouble(neg, digits, exp) == RoundedCanonical(neg, Canonical(digits, exp))

\* The integer n, and the double nearest to m * 10^k.
Number(n) == ToDouble(n < 0, Reverse(SmallDigits(IF n < 0 THEN -n ELSE n)), 0)

Decimal(m, k) == ToDouble(m < 0, Reverse(SmallDigits(IF m < 0 THEN -m ELSE m)), k)

\* A function, by its source text and by the value a call of it returns:
\* the functions here return the same value for every receiver and argument.
Function(source, returns) ==
    [type |-> "function", source |-> source, returns |-> returns]

String(s) == [type |-> "string", s |-> s]

Array(items) == [type |-> "array", items |-> items]

Object(props) == [type |-> "object", props |-> props]

DigitChars == Codes(<<"0", "1", "2", "3", "4", "5", "6", "7", "8", "9">>)

IsDigit(c) == \E d \in 1..10 : DigitChars[d] = c

DigitValue(c) == (CHOOSE d \in 1..10 : DigitChars[d] = c) - 1

\* The largest array index, 2^32 - 2.
MaxArrayIndex == Codes(<<"4", "2", "9", "4", "9", "6", "7", "2", "9", "4">>)

\* a < b, for two canonical numeric strings.
IndexLess(a, b) ==
    \/ Len(a) < Len(b)
    \/ /\ Len(a) = Len(b)
       /\ \E i \in 1..Len(a) : /\ a[i] < b[i]
                                /\ \A j \in 1..(i - 1) : a[j] = b[j]

\* A key that is an array index: a canonical numeric string up to 2^32 - 2.
IsArrayIndex(key) ==
    /\ Len(key) >= 1
    /\ \A i \in 1..Len(key) : IsDigit(key[i])
    /\ Len(key) = 1 \/ key[1] # Zero
    /\ ~IndexLess(MaxArrayIndex, key)

IsIndexProperty(p) == IsArrayIndex(p.key)

IsNamedProperty(p) == ~IsArrayIndex(p.key)

\* The properties ps, all with array indices as keys, in ascending order.
RECURSIVE SortIndices(_)
SortIndices(ps) ==
    IF ps = <<>> THEN <<>>
    ELSE LET rest == SortIndices(Tail(ps))
             n    == Cardinality({j \in 1..Len(rest) :
                                     IndexLess(rest[j].key, Head(ps).key)})
         IN  SubSeq(rest, 1, n) \o <<Head(ps)>> \o SubSeq(rest, n + 1, Len(rest))

\* The properties added in the order ps, in enumeration order.
OrdinaryOwnPropertyKeys(ps) ==
    SortIndices(SelectSeq(ps, IsIndexProperty)) \o SelectSeq(ps, IsNamedProperty)

\* Adding the property key: value to the properties ps, in the order they
\* were added in: a key there already keeps its place and gets the value.
CreateDataProperty(ps, key, value) ==
    IF \E i \in 1..Len(ps) : ps[i].key = key
    THEN [i \in 1..Len(ps) |-> IF ps[i].key = key
                               THEN [key |-> key, value |-> value] ELSE ps[i]]
    ELSE Append(ps, [key |-> key, value |-> value])

\* The decimal digits of the natural number n, as code units.
RECURSIVE Digits(_)
Digits(n) ==
    IF n < 10 THEN <<DigitChars[n + 1]>>
    ELSE Digits(n \div 10) \o <<DigitChars[(n % 10) + 1]>>

DigitCodes(digits) == [i \in 1..Len(digits) |-> DigitChars[digits[i] + 1]]

Zeros(n) == [i \in 1..n |-> Zero]

\* Number::toString: with k digits and the decimal point after n of them,
\* the digits and zeros up to the point when k <= n <= 21, the digits with
\* the point among them when 0 < n <= 21, 0. and zeros before the digits
\* when -6 < n <= 0, and the exponent form otherwise.
NumberText(v) ==
    LET digits == DigitCodes(v.digits)
        k      == Len(digits)
        n      == k + v.exp
        power  == n - 1
    IN  IF v.kind = "NaN" THEN Codes(<<"N", "a", "N">>)
        ELSE IF v.digits = <<>> /\ v.kind = "finite" THEN <<Zero>>
        ELSE (IF v.neg THEN <<Minus>> ELSE <<>>) \o
             (IF v.kind = "Infinity"
              THEN Codes(<<"I", "n", "f", "i", "n", "i", "t", "y">>)
              ELSE IF k <= n /\ n <= 21 THEN digits \o Zeros(n - k)
              ELSE IF 0 < n /\ n <= 21
                   THEN SubSeq(digits, 1, n) \o <<Dot>> \o SubSeq(digits, n + 1, k)
              ELSE IF -6 < n /\ n <= 0 THEN <<Zero, Dot>> \o Zeros(-n) \o digits
              ELSE <<digits[1]>>
                   \o (IF k > 1 THEN <<Dot>> \o Tail(digits) ELSE <<>>)
                   \o <<Code("e")>>
                   \o (IF power < 0 THEN <<Minus>> \o Digits(-power)
                       ELSE <<Code("+")>> \o Digits(power)))

HexChars ==
    Codes(<<"0", "1", "2", "3", "4", "5", "6", "7", "8", "9",
            "a", "b", "c", "d", "e", "f">>)

\* \uXXXX for the code unit c.
UnicodeEscape(c) ==
    <<Backslash, Code("u"),
      HexChars[((c \div 4096) % 16) + 1], HexChars[((c \div 256) % 16) + 1],
      HexChars[((c \div 16) % 16) + 1], HexChars[(c % 16) + 1]>>

IsLeadSurrogate(c) == 55296 <= c /\ c <= 56319

IsTrailSurrogate(c) == 56320 <= c /\ c <= 57343

\* What JSON.stringify writes for the code unit at i of the string s.
QuoteChar(s, i) ==
    LET c == s[i]
    IN  IF c = Quote THEN <<Backslash, Quote>>
        ELSE IF c = Backslash THEN <<Backslash, Backslash>>
        ELSE IF c = 8 THEN <<Backslash, Code("b")>>
        ELSE IF c = 9 THEN <<Backslash, Code("t")>>
        ELSE IF c = 10 THEN <<Backslash, Code("n")>>
        ELSE IF c = 12 THEN <<Backslash, Code("f")>>
        ELSE IF c = 13 THEN <<Backslash, Code("r")>>
        ELSE IF c < 32 THEN UnicodeEscape(c)
        ELSE IF IsLeadSurrogate(c)
             THEN (IF i < Len(s) /\ IsTrailSurrogate(s[i + 1])
                   THEN <<c>> ELSE UnicodeEscape(c))
        ELSE IF IsTrailSurrogate(c)
             THEN (IF i > 1 /\ IsLeadSurrogate(s[i - 1])
                   THEN <<c>> ELSE UnicodeEscape(c))
        ELSE <<c>>

RECURSIVE QuoteChars(_, _)
QuoteChars(s, i) ==
    IF i > Len(s) THEN <<>> ELSE QuoteChar(s, i) \o QuoteChars(s, i + 1)

\* JSON.stringify of a string: in quotes, with the quote, the backslash, the
\* control characters and the lone surrogates escaped.
QuoteJSONString(s) == <<Quote>> \o QuoteChars(s, 1) \o <<Quote>>

RECURSIVE SerializeJSONProperty(_)

\* JSON.stringify of one property: "key":value
MemberText(p) == QuoteJSONString(p.key) \o <<Colon>> \o SerializeJSONProperty(p.value)

RECURSIVE MembersText(_)
MembersText(ps) ==
    IF ps = <<>> THEN <<>>
    ELSE IF Len(ps) = 1 THEN MemberText(ps[1])
    ELSE MemberText(ps[1]) \o <<Comma>> \o MembersText(Tail(ps))

KeyToJSON == Codes(<<"t", "o", "J", "S", "O", "N">>)

\* The object has a property of its own named key, and that property's value.
HasOwnProperty(v, key) ==
    v.type = "object" /\ \E i \in 1..Len(v.props) : v.props[i].key = key

GetOwnProperty(v, key) ==
    v.props[CHOOSE i \in 1..Len(v.props) : v.props[i].key = key].value

\* The object has a method of its own named key.
HasOwnMethod(v, key) ==
    HasOwnProperty(v, key) /\ GetOwnProperty(v, key).type = "function"

\* The value JSON.stringify writes for v: what the toJSON method of v
\* returns, when v has one.
ToJSON(v) ==
    IF HasOwnMethod(v, KeyToJSON) THEN GetOwnProperty(v, KeyToJSON).returns ELSE v

\* JSON.stringify has no text for undefined and for a function.
HasText(v) == ToJSON(v).type \notin {"undefined", "function"}

Serialisable(p) == HasText(p.value)

\* JSON.stringify of one item of an array: null for a value without text.
ElementText(v) ==
    IF ~HasText(v) THEN Codes(<<"n", "u", "l", "l">>)
    ELSE SerializeJSONProperty(v)

RECURSIVE ElementsText(_)
ElementsText(vs) ==
    IF vs = <<>> THEN <<>>
    ELSE IF Len(vs) = 1 THEN ElementText(vs[1])
    ELSE ElementText(vs[1]) \o <<Comma>> \o ElementsText(Tail(vs))

\* The text of a value that has one; a property of an object whose value
\* has none is left out.  A number that is not finite is written null.
SerializeJSONProperty(value) ==
    LET v == ToJSON(value)
    IN  IF v.type = "null" THEN Codes(<<"n", "u", "l", "l">>)
        ELSE IF v.type = "boolean"
             THEN (IF v.b THEN Codes(<<"t", "r", "u", "e">>)
                   ELSE Codes(<<"f", "a", "l", "s", "e">>))
        ELSE IF v.type = "number"
             THEN (IF v.kind = "finite" THEN NumberText(v)
                   ELSE Codes(<<"n", "u", "l", "l">>))
        ELSE IF v.type = "string" THEN QuoteJSONString(v.s)
        ELSE IF v.type = "array"
             THEN <<Code("[")>> \o ElementsText(v.items) \o <<Code("]")>>
        ELSE <<Code("{")>> \o MembersText(SelectSeq(v.props, Serialisable))
             \o <<Code("}")>>

\* JSON.stringify(value): a string, or undefined for a value without text.
JSONstringify(value) ==
    IF ~HasText(value) THEN Undefined
    ELSE String(SerializeJSONProperty(value))

getJSON(obj) == JSONstringify(obj)

\* A conversion to a string that gave the text s, and one that threw a
\* TypeError.
Text(s) == [threw |-> FALSE, s |-> s]

TypeError == [threw |-> TRUE, s |-> <<>>]

KeyToString == Codes(<<"t", "o", "S", "t", "r", "i", "n", "g">>)

KeyValueOf == Codes(<<"v", "a", "l", "u", "e", "O", "f">>)

IsPrimitive(v) == v.type \notin {"object", "array", "function"}

\* The object has a method of its own named key that returns a primitive.
GivesPrimitive(v, key) ==
    HasOwnMethod(v, key) /\ IsPrimitive(GetOwnProperty(v, key).returns)

\* ToString(value), which JSON.parse applies to its argument.
RECURSIVE JSToString(_)

\* One item of Array.prototype.join: nothing for undefined and null.
JoinItem(v) == IF v.type \in {"undefined", "null"} THEN Text(<<>>) ELSE JSToString(v)

\* Array.prototype.join: the items from left to right with commas between;
\* an item whose conversion throws ends the join.
RECURSIVE Join(_)
Join(vs) ==
    IF vs = <<>> THEN Text(<<>>)
    ELSE LET first == JoinItem(vs[1])
             rest  == Join(Tail(vs))
         IN  IF first.threw THEN TypeError
             ELSE IF Len(vs) = 1 THEN first
             ELSE IF rest.threw THEN TypeError
             ELSE Text(first.s \o <<Comma>> \o rest.s)

\* An array converts by Array.prototype.toString, which joins its items,
\* and a function by Function.prototype.toString, which gives its source.
\* An object converts by OrdinaryToPrimitive: the result of its toString
\* when that is a method giving a primitive, else the result of its valueOf
\* when that is one, else a TypeError.  Object.prototype.toString, found
\* when no own property hides it, gives [object Object];
\* Object.prototype.valueOf gives the object itself, which is no primitive.
JSToString(v) ==
    IF v.type = "string" THEN Text(v.s)
    ELSE IF v.type = "undefined"
         THEN Text(Codes(<<"u", "n", "d", "e", "f", "i", "n", "e", "d">>))
    ELSE IF v.type = "null" THEN Text(Codes(<<"n", "u", "l", "l">>))
    ELSE IF v.type = "boolean"
         THEN (IF v.b THEN Text(Codes(<<"t", "r", "u", "e">>))
               ELSE Text(Codes(<<"f", "a", "l", "s", "e">>)))
    ELSE IF v.type = "number" THEN Text(NumberText(v))
    ELSE IF v.type = "array" THEN Join(v.items)
    ELSE IF v.type = "function" THEN Text(v.source)
    ELSE IF ~HasOwnProperty(v, KeyToString)
         THEN Text(Codes(<<"[", "o", "b", "j", "e", "c", "t", " ",
                           "O", "b", "j", "e", "c", "t", "]">>))
    ELSE IF GivesPrimitive(v, KeyToString)
         THEN JSToString(GetOwnProperty(v, KeyToString).returns)
    ELSE IF GivesPrimitive(v, KeyValueOf)
         THEN JSToString(GetOwnProperty(v, KeyValueOf).returns)
    ELSE TypeError

\* A value read from a text, and the position after it.
Parsed(v, next) == [ok |-> TRUE, error |-> "", value |-> v, next |-> next]

SyntaxError == [ok |-> FALSE, error |-> "SyntaxError", value |-> Undefined, next |-> 0]

\* The code unit at i of t is c.
At(t, i, c) == i <= Len(t) /\ t[i] = c

\* The text t has the word at i.
Literal(t, i, word) ==
    /\ i + Len(word) - 1 <= Len(t)
    /\ SubSeq(t, i, i + Len(word) - 1) = word

\* White space between the tokens: tab, line feed, carriage return, space.
IsWhitespace(c) == c \in {9, 10, 13, 32}

\* The position of the first code unit from i on that is not white space.
RECURSIVE SkipWhitespace(_, _)
SkipWhitespace(t, i) ==
    IF i <= Len(t) /\ IsWhitespace(t[i]) THEN SkipWhitespace(t, i + 1) ELSE i

\* The position after the digits that start at i.
RECURSIVE DigitsEnd(_, _)
DigitsEnd(t, i) ==
    IF i <= Len(t) /\ IsDigit(t[i]) THEN DigitsEnd(t, i + 1) ELSE i

\* The digits t[i..j-1].
DigitValues(t, i, j) == [n \in 1..(j - i) |-> DigitValue(t[i + n - 1])]

\* The natural number the digits t[i..j-1] write, of any size.
DigitsNatural(t, i, j) == Trim(Reverse(DigitValues(t, i, j)))

\* The number at i: -? (0 | [1-9][0-9]*) (. [0-9]+)? ([eE] [+-]? [0-9]+)?
\* After a leading 0 the integer part is over, so 01 is 0 followed by 1.
\* Its value is the double nearest to the decimal.  The power of ten is
\* read in full.  The digits before it are fewer than the code units of the
\* text, so a power that is 400 above their number puts a decimal that is
\* not zero above every double or below half the least one.
ParseNumber(t, i) ==
    LET neg     == At(t, i, Minus)
        i0      == IF neg THEN i + 1 ELSE i
        i1      == IF At(t, i0, Zero) THEN i0 + 1 ELSE DigitsEnd(t, i0)
        hasFrac == At(t, i1, Dot)
        f1      == IF hasFrac THEN DigitsEnd(t, i1 + 1) ELSE i1
        hasExp  == At(t, f1, Code("e")) \/ At(t, f1, Code("E"))
        expNeg  == hasExp /\ At(t, f1 + 1, Minus)
        x0      == IF expNeg \/ At(t, f1 + 1, Code("+")) THEN f1 + 2 ELSE f1 + 1
        x1      == IF hasExp THEN DigitsEnd(t, x0) ELSE f1
        whole   == DigitValues(t, i0, i1)
        digits  == IF hasFrac THEN whole \o DigitValues(t, i1 + 1, f1) ELSE whole
        places  == IF hasFrac THEN f1 - (i1 + 1) ELSE 0
        power   == IF hasExp THEN DigitsNatural(t, x0, x1) ELSE <<>>
        far     == BigCmp(power, SmallDigits(Len(t) + 400)) >= 0
        exp     == IF expNeg THEN -NaturalOf(power) ELSE NaturalOf(power)
    IN  IF i1 = i0 \/ (hasFrac /\ f1 = i1 + 1) \/ (hasExp /\ x1 = x0)
        THEN SyntaxError
        ELSE IF far
        THEN Parsed(IF expNeg \/ \A n \in DOMAIN digits : digits[n] = 0
                    THEN SignedZero(neg) ELSE Infinity(neg), x1)
        ELSE Parsed(ToDouble(neg, digits, exp - places), x1)

IsHexDigit(c) ==
    \/ IsDigit(c)
    \/ Code("a") <= c /\ c <= Code("f")
    \/ Code("A") <= c /\ c <= Code("F")

HexValue(c) ==
    IF IsDigit(c) THEN DigitValue(c)
    ELSE IF c >= Code("a") THEN 10 + c - Code("a")
    ELSE 10 + c - Code("A")

\* The escapes of one character, and the code units they stand for.
Escapes ==
    {<<Quote, Quote>>, <<Backslash, Backslash>>, <<Code("/"), Code("/")>>,
     <<Code("b"), 8>>, <<Code("f"), 12>>, <<Code("n"), 10>>,
     <<Code("r"), 13>>, <<Code("t"), 9>>}

IsEscape(c) == \E e \in Escapes : e[1] = c

Unescape(c) == (CHOOSE e \in Escapes : e[1] = c)[2]

\* The string whose first code unit after the opening quote, or after the
\* part read so far into acc, is at i.
RECURSIVE ParseString(_, _, _)
ParseString(t, i, acc) ==
    IF i > Len(t) THEN SyntaxError
    ELSE IF t[i] = Quote THEN Parsed(String(acc), i + 1)
    ELSE IF t[i] < 32 THEN SyntaxError
    ELSE IF t[i] # Backslash THEN ParseString(t, i + 1, Append(acc, t[i]))
    ELSE IF i + 1 > Len(t) THEN SyntaxError
    ELSE IF t[i + 1] = Code("u")
         THEN (IF i + 5 <= Len(t) /\ \A j \in (i + 2)..(i + 5) : IsHexDigit(t[j])
               THEN ParseString(t, i + 6,
                        Append(acc, 4096 * HexValue(t[i + 2]) + 256 * HexValue(t[i + 3])
                                    + 16 * HexValue(t[i + 4]) + HexValue(t[i + 5])))
               ELSE SyntaxError)
    ELSE IF IsEscape(t[i + 1])
         THEN ParseString(t, i + 2, Append(acc, Unescape(t[i + 1])))
    ELSE SyntaxError

RECURSIVE ParseValue(_, _)

\* The members of an object from the key at i on, up to the closing brace;
\* acc holds the properties read so far, in the order they were added in.
RECURSIVE ParseMembers(_, _, _)
ParseMembers(t, i, acc) ==
    IF ~At(t, i, Quote) THEN SyntaxError
    ELSE LET k == ParseString(t, i + 1, <<>>)
             c == SkipWhitespace(t, k.next)
             v == ParseValue(t, c + 1)
             e == SkipWhitespace(t, v.next)
             props == CreateDataProperty(acc, k.value.s, v.value)
         IN  IF ~k.ok THEN SyntaxError
             ELSE IF ~At(t, c, Colon) THEN SyntaxError
             ELSE IF ~v.ok THEN SyntaxError
             ELSE IF At(t, e, Comma)
                  THEN ParseMembers(t, SkipWhitespace(t, e + 1), props)
             ELSE IF At(t, e, Code("}"))
                  THEN Parsed(Object(OrdinaryOwnPropertyKeys(props)), e + 1)
             ELSE SyntaxError

\* The items of an array from the value at i on, up to the closing bracket.
RECURSIVE ParseElements(_, _, _)
ParseElements(t, i, acc) ==
    LET v == ParseValue(t, i)
        e == SkipWhitespace(t, v.next)
    IN  IF ~v.ok THEN SyntaxError
        ELSE IF At(t, e, Comma) THEN ParseElements(t, e + 1, Append(acc, v.value))
        ELSE IF At(t, e, Code("]")) THEN Parsed(Array(Append(acc, v.value)), e + 1)
        ELSE SyntaxError

\* The value that starts at i, after white space.
ParseValue(t, i) ==
    LET j == SkipWhitespace(t, i)
        m == SkipWhitespace(t, j + 1)
    IN  IF j > Len(t) THEN SyntaxError
        ELSE IF t[j] = Code("{")
             THEN (IF At(t, m, Code("}")) THEN Parsed(Object(<<>>), m + 1)
                   ELSE ParseMembers(t, m, <<>>))
        ELSE IF t[j] = Code("[")
             THEN (IF At(t, m, Code("]")) THEN Parsed(Array(<<>>), m + 1)
                   ELSE ParseElements(t, m, <<>>))
        ELSE IF t[j] = Quote THEN ParseString(t, j + 1, <<>>)
        ELSE IF t[j] = Minus \/ IsDigit(t[j]) THEN ParseNumber(t, j)
        ELSE IF Literal(t, j, Codes(<<"t", "r", "u", "e">>))
             THEN Parsed(Boolean(TRUE), j + 4)
        ELSE IF Literal(t, j, Codes(<<"f", "a", "l", "s", "e">>))
             THEN Parsed(Boolean(FALSE), j + 5)
        ELSE IF Literal(t, j, Codes(<<"n", "u", "l", "l">>))
             THEN Parsed(JSNull, j + 4)
        ELSE SyntaxError

\* JSON.parse(text): the text is the argument converted to a string, and
\* holds one value with white space around it and nothing else.  A
\* conversion that throws ends the call with its TypeError.
JSONparse(text) ==
    LET whole(t, v) ==
            IF v.ok /\ SkipWhitespace(t, v.next) = Len(t) + 1 THEN v ELSE SyntaxError
        parse(str) ==
            IF str.threw
            THEN [ok |-> FALSE, error |-> "TypeError", value |-> Undefined, next |-> 0]
            ELSE whole(str.s, ParseValue(str.s, 1))
    IN  parse(JSToString(text))

\* Object.values(value), of a value that is not null: the values of the
\* properties of an object, the items of an array, the code units of a
\* string, and nothing for a number or a boolean.
ObjectValues(value) ==
    IF value.type = "object" THEN [i \in 1..Len(value.props) |-> value.props[i].value]
    ELSE IF value.type = "array" THEN value.items
    ELSE IF value.type = "string" THEN [i \in 1..Len(value.s) |-> String(<<value.s[i]>>)]
    ELSE <<>>

\* new constructor(...values), for a constructor that assigns each of its
\* parameters to the property of the same name: a parameter without argument
\* is undefined, an argument without parameter is dropped.
New(constructor, values) ==
    Object([i \in 1..Len(constructor) |->
               [key   |-> constructor[i],
                value |-> IF i <= Len(values) THEN values[i] ELSE Undefined]])

\* A call that threw the error, and a call that returned obj.
Threw(error) == [threw |-> TRUE, error |-> error, obj |-> Undefined]

Returned(obj) == [threw |-> FALSE, error |-> "", obj |-> obj]

\* A faulty variant of fromJSON: it gives each parameter the value of the
\* property of its name.
fromJSONByName(proto, text) ==
    LET parsed == JSONparse(text)
    IN  IF ~parsed.ok THEN Threw(parsed.error)
        ELSE IF parsed.value.type \in {"null", "undefined"} THEN Threw("TypeError")
        ELSE Returned(Object([i \in 1..Len(proto.constructor) |->
                 [key   |-> proto.constructor[i],
                  value |-> IF HasOwnProperty(parsed.value, proto.constructor[i])
                            THEN GetOwnProperty(parsed.value, proto.constructor[i])
                            ELSE Undefined]]))

\* JSON.parse throws a TypeError for an argument that has no string and a
\* SyntaxError for a text that is not JSON, and Object.values a TypeError
\* for null.
fromJSON(proto, text) ==
    LET construct(parsed) ==
            IF ~parsed.ok THEN Threw(parsed.error)
            ELSE IF parsed.value.type = "null" THEN Threw("TypeError")
            ELSE LET values == ObjectValues(parsed.value)
                 IN  Returned(New(proto.constructor, values))
    IN  construct(JSONparse(text))

(* ------------------------------- actions ------------------------------- *)

NoCall ==
    [op |-> "none", this |-> Null, method |-> "", value |-> "", selector |-> "",
     selector1 |-> Null, combinator |-> "", selector2 |-> Null,
     threw |-> FALSE, error |-> "", ret |-> Null, text |-> ""]

NoOutcome == [status |-> "running", value |-> ""]

\* No rectangle made yet.
NoRectangle ==
    [op |-> "none", r |-> Rectangle(0, 0), reassigned |-> FALSE, area |-> 0]

\* Nothing given to getJSON yet.
NoJSON ==
    [pc |-> "none", obj |-> Undefined, text |-> Undefined,
     proto |-> [constructor |-> <<>>], result |-> Returned(Undefined)]

Init ==
    /\ heap = <<EntryPoint>>
    /\ last = NoCall
    /\ steps = [c \in Chains |-> <<>>]
    /\ cur = [c \in Chains |-> cssSelectorBuilder]
    /\ outcome = [c \in Chains |-> NoOutcome]
    /\ rect = NoRectangle
    /\ json = NoJSON

\* What is recorded of the call this.<method>(value) that ended as r.
CategoryCall(this, method, value, r) ==
    [NoCall EXCEPT !.op = "category", !.this = this, !.method = method,
                   !.value = value, !.threw = r.threw, !.error = r.error,
                   !.ret = r.ret]

\* What is recorded of the call this.copyBuilder(value, selector) that ended
\* as r.
CopyBuilderCall(this, value, selector, r) ==
    [NoCall EXCEPT !.op = "copyBuilder", !.this = this, !.value = value,
                   !.selector = selector, !.threw = r.threw, !.error = r.error,
                   !.ret = r.ret]

\* What is recorded of the call this.stringify() that ended as r.
StringifyCall(this, r) ==
    [NoCall EXCEPT !.op = "stringify", !.this = this, !.text = r.ret]

\* What is recorded of the call this.combine(selector1, combinator, selector2)
\* that ended as r.
CombineCall(this, selector1, combinator, selector2, r) ==
    [NoCall EXCEPT !.op = "combine", !.this = this, !.selector1 = selector1,
                   !.combinator = combinator, !.selector2 = selector2,
                   !.threw = r.threw, !.error = r.error, !.ret = r.ret]

(* Any method on any object. *)

Category ==
    /\ \E this \in DOMAIN heap, method \in Categories, value \in Values :
           \E r \in {CallCategory(heap, this, method, value)} :
               /\ r.threw \/ Len(heap) < MaxObjects
               /\ heap' = r.heap
               /\ last' = CategoryCall(this, method, value, r)
    /\ UNCHANGED <<steps, cur, outcome, rect, json>>

\* copyBuilder is a method of the object as the others are, and takes any
\* selector: a category or some other string.
CopyBuilder ==
    /\ \E this \in DOMAIN heap, value \in Values, selector \in Selectors :
           \E r \in {copyBuilder(heap, this, value, selector)} :
               /\ r.threw \/ Len(heap) < MaxObjects
               /\ heap' = r.heap
               /\ last' = CopyBuilderCall(this, value, selector, r)
    /\ UNCHANGED <<steps, cur, outcome, rect, json>>

Stringify ==
    /\ \E this \in DOMAIN heap :
           \E r \in {stringify(heap, this)} :
               /\ heap' = r.heap
               /\ last' = StringifyCall(this, r)
    /\ UNCHANGED <<steps, cur, outcome, rect, json>>

Combine ==
    /\ \E this \in DOMAIN heap, selector1 \in DOMAIN heap,
          combinator \in Combinators, selector2 \in DOMAIN heap :
           \E r \in {combine(heap, this, selector1, combinator, selector2)} :
               /\ r.threw \/ Len(heap) < MaxObjects
               /\ heap' = r.heap
               /\ last' = CombineCall(this, selector1, combinator, selector2, r)
    /\ UNCHANGED <<steps, cur, outcome, rect, json>>

Next == Category \/ CopyBuilder \/ Stringify \/ Combine

Spec == Init /\ [][Next]_vars

(* The category methods, stringify and combine on any object, without a    *)
(* call of copyBuilder from outside.                                        *)

NextMethods == Category \/ Stringify \/ Combine

SpecMethods == Init /\ [][NextMethods]_vars

(* Two call sites, each evaluating                                          *)
(*     cssSelectorBuilder.<method>(value). ... .<method>(value).stringify() *)
(* one call at a time, in any interleaving.  A chain ends when a call       *)
(* throws or when stringify() has returned.                                 *)

RECURSIVE TotalCalls(_)
TotalCalls(S) ==
    IF S = {} THEN 0
    ELSE LET c == CHOOSE d \in S : TRUE
         IN  Len(steps[c]) + TotalCalls(S \ {c})

ChainCategory(c, method, value) ==
    /\ outcome[c].status = "running"
    /\ TotalCalls(Chains) < MaxCalls
    /\ \E r \in {CallCategory(heap, cur[c], method, value)} :
           /\ heap' = r.heap
           /\ last' = CategoryCall(cur[c], method, value, r)
           /\ steps' = [steps EXCEPT ![c] = Append(@, [method |-> method, value |-> value])]
           /\ cur' = [cur EXCEPT ![c] = IF r.threw THEN @ ELSE r.ret]
           /\ outcome' = [outcome EXCEPT ![c] =
                             IF r.threw THEN [status |-> "threw", value |-> r.error] ELSE @]
    /\ UNCHANGED <<rect, json>>

ChainStringify(c) ==
    /\ outcome[c].status = "running"
    /\ \E r \in {stringify(heap, cur[c])} :
           /\ heap' = r.heap
           /\ last' = StringifyCall(cur[c], r)
           /\ outcome' = [outcome EXCEPT ![c] = [status |-> "returned", value |-> r.ret]]
    /\ UNCHANGED <<steps, cur, rect, json>>

ChainStep ==
    \E c \in Chains, method \in Categories, value \in Values :
        ChainCategory(c, method, value)

ChainEnd == \E c \in Chains : ChainStringify(c)

NextChains == ChainStep \/ ChainEnd

SpecChains == Init /\ [][NextChains]_vars

(* The facade use of the doc comment: every call is made on the entry      *)
(* point, cssSelectorBuilder.<method>(value) and                            *)
(* cssSelectorBuilder.combine(selector1, combinator, selector2) with two    *)
(* different selectors made by earlier calls.                               *)

FacadeCategory ==
    /\ Len(heap) < MaxFacadeObjects
    /\ \E method \in FacadeMethods, value \in Values :
           \E r \in {CallCategory(heap, cssSelectorBuilder, method, value)} :
               /\ heap' = r.heap
               /\ last' = CategoryCall(cssSelectorBuilder, method, value, r)
    /\ UNCHANGED <<steps, cur, outcome, rect, json>>

FacadeCombine ==
    /\ Len(heap) < MaxFacadeObjects
    /\ \E selector1 \in DOMAIN heap \ {cssSelectorBuilder},
          combinator \in FacadeCombinators,
          selector2 \in DOMAIN heap \ {cssSelectorBuilder} :
           /\ selector1 # selector2
           /\ \E r \in {combine(heap, cssSelectorBuilder, selector1, combinator, selector2)} :
                  /\ heap' = r.heap
                  /\ last' = CombineCall(cssSelectorBuilder, selector1, combinator,
                                         selector2, r)
    /\ UNCHANGED <<steps, cur, outcome, rect, json>>

NextFacade == FacadeCategory \/ FacadeCombine

SpecFacade == Init /\ [][NextFacade]_vars

(* A call site that makes a rectangle, assigns to its fields and asks for  *)
(* its area.                                                                *)

Numbers == (-MaxNumber)..MaxNumber

NewRectangle ==
    /\ rect.op = "none"
    /\ \E width \in Numbers, height \in Numbers :
           rect' = [NoRectangle EXCEPT !.op = "Rectangle",
                                       !.r = Rectangle(width, height)]
    /\ UNCHANGED <<heap, last, steps, cur, outcome, json>>

\* r.width = value
SetWidth ==
    /\ rect.op # "none"
    /\ \E value \in Numbers :
           rect' = [rect EXCEPT !.op = "set", !.r.obj.width = value,
                                !.reassigned = TRUE]
    /\ UNCHANGED <<heap, last, steps, cur, outcome, json>>

\* r.height = value
SetHeight ==
    /\ rect.op # "none"
    /\ \E value \in Numbers :
           rect' = [rect EXCEPT !.op = "set", !.r.obj.height = value,
                                !.reassigned = TRUE]
    /\ UNCHANGED <<heap, last, steps, cur, outcome, json>>

\* r.getArea()
GetArea ==
    /\ rect.op # "none"
    /\ rect' = [rect EXCEPT !.op = "getArea", !.area = getArea(rect.r)]
    /\ UNCHANGED <<heap, last, steps, cur, outcome, json>>

NextRectangle == NewRectangle \/ SetWidth \/ SetHeight \/ GetArea

SpecRectangle == Init /\ [][NextRectangle]_vars

(* A call site that evaluates fromJSON(proto, getJSON(obj)).                *)

KeyWidth == Codes(<<"w", "i", "d", "t", "h">>)

KeyHeight == Codes(<<"h", "e", "i", "g", "h", "t">>)

KeyRadius == Codes(<<"r", "a", "d", "i", "u", "s">>)

\* A key with a quote and a backslash in it.
KeyQuoted == Codes(<<"a", "\"", "\\">>)

\* Two keys that are array indices.
KeyTwo == Codes(<<"2">>)

KeyTen == Codes(<<"1", "0">>)

PropertyNames == {KeyWidth, KeyHeight, KeyRadius, KeyQuoted, KeyTwo, KeyTen}

\* The prototypes given to fromJSON, each with its constructor's parameters.
Prototypes ==
    {[constructor |-> <<KeyWidth, KeyHeight>>],
     [constructor |-> <<KeyHeight, KeyWidth>>],
     [constructor |-> <<KeyRadius>>]}

\* A method of the objects given to getJSON: () => 1
Method == Function(Codes(<<"(", ")", " ", "=", ">", " ", "1">>), Number(1))

\* The values of the properties of the objects given to getJSON: the
\* numbers, a number with a fraction, the numbers JSON has no text for and
\* the negative zero, a string with a quote in it, undefined and a method.
JSONValues ==
    {Number(v) : v \in JSONNumbers}
        \cup {Decimal(15, -1), NaN, Infinity(FALSE), SignedZero(TRUE),
              String(Codes(<<"\"", "b">>)), Undefined, Method}

\* The objects of n properties given to getJSON: the properties have
\* different names and are in enumeration order.
Objects(n) ==
    {Object(ps) : ps \in {qs \in [1..n -> [key : PropertyNames, value : JSONValues]] :
                             /\ \A i, j \in 1..n : i # j => qs[i].key # qs[j].key
                             /\ OrdinaryOwnPropertyKeys(qs) = qs}}

GetJSON ==
    /\ json.pc = "none"
    /\ \E n \in 0..MaxProperties : \E obj \in Objects(n) :
           json' = [json EXCEPT !.pc = "text", !.obj = obj, !.text = getJSON(obj)]
    /\ UNCHANGED <<heap, last, steps, cur, outcome, rect>>

FromJSON ==
    /\ json.pc = "text"
    /\ \E proto \in Prototypes :
           json' = [json EXCEPT !.pc = "done", !.proto = proto,
                                !.result = fromJSON(proto, json.text)]
    /\ UNCHANGED <<heap, last, steps, cur, outcome, rect>>

NextJSON == GetJSON \/ FromJSON

SpecJSON == Init /\ [][NextJSON]_vars

(* ------------------------------- claims -------------------------------- *)

\* The ranks of the categories, as the specification lists them.
Rank(category) ==
    CASE category = "element"       -> 0
      [] category = "id"            -> 1
      [] category = "class"         -> 2
      [] category = "attr"          -> 3
      [] category = "pseudoClass"   -> 4
      [] category = "pseudoElement" -> 5

\* The categories that may occur once only.
Singletons == {"element", "id", "pseudoElement"}

\* The fragment a category call adds, as the specification's table gives it.
Fragment(step) ==
    CASE step.method = "element"       -> step.value
      [] step.method = "id"            -> "#" \o step.value
      [] step.method = "class"         -> "." \o step.value
      [] step.method = "attr"          -> "[" \o step.value \o "]"
      [] step.method = "pseudoClass"   -> ":" \o step.value
      [] step.method = "pseudoElement" -> "::" \o step.value

RECURSIVE Concat(_)
Concat(s) == IF s = <<>> THEN "" ELSE Fragment(Head(s)) \o Concat(Tail(s))

\* A chain of category calls whose ranks never decrease and in which only
\* class, attr and pseudoClass repeat.
ValidChain(s) ==
    /\ \A i \in 1..(Len(s) - 1) : Rank(s[i].method) <= Rank(s[i + 1].method)
    /\ \A i, j \in 1..Len(s) :
           (i # j /\ s[i].method = s[j].method) => s[i].method \notin Singletons

Methods(s) == [i \in 1..Len(s) |-> s[i].method]

\* The state stringify() leaves an object in.
Reset == [cssCode |-> "", lastSelector |-> "", lastOrder |-> -1]

\* C1: a chain of category calls from the entry point whose ranks never
\* decrease and in which only class, attr and pseudoClass repeat never throws,
\* and stringify() on its last snapshot returns the fragments of its calls,
\* concatenated in call order with nothing between them.
C1_ValidChainConcatenates ==
    \A c \in Chains :
        ValidChain(steps[c]) =>
            /\ outcome[c].status # "threw"
            /\ outcome[c].status = "running" =>
                   stringify(heap, cur[c]).ret = Concat(steps[c])
            /\ outcome[c].status = "returned" =>
                   outcome[c].value = Concat(steps[c])

C1_Witness ==
    \E c \in Chains :
        /\ Methods(steps[c]) = <<"id", "class", "class">>
        /\ outcome[c] = [status |-> "returned", value |-> "#a.a.a"]

\* C2: a category call whose rank is strictly less than the receiver's
\* last-category rank throws the ordering error and returns no snapshot.
C2_LowerRankThrowsOrderError ==
    [][(/\ last'.op = "category"
        /\ Rank(last'.method) < Get(heap, last'.this, "lastOrder"))
       => (/\ last'.threw
           /\ last'.error = OrderError
           /\ last'.ret = Null
           /\ heap' = heap)]_vars

C2_Witness ==
    /\ last.op = "category"
    /\ last.method = "id"
    /\ Get(heap, last.this, "lastSelector") = "class"
    /\ last.threw
    /\ last.error = OrderError

\* C3: a category call throws the duplicate error exactly when its category
\* is element, id or pseudoElement and is the receiver's last category; a
\* class, attr or pseudoClass call on a receiver whose last category is the
\* same succeeds.
C3_DuplicateErrorIff ==
    [][last'.op = "category"
       => (/\ (last'.threw /\ last'.error = DuplicateError)
                  <=> (/\ last'.method \in Singletons
                       /\ last'.method = Get(heap, last'.this, "lastSelector"))
           /\ (/\ last'.method \notin Singletons
               /\ last'.method = Get(heap, last'.this, "lastSelector"))
                  => ~last'.threw)]_vars

C3_Witness ==
    /\ last.op = "category"
    /\ last.method = "pseudoElement"
    /\ Get(heap, last.this, "lastSelector") = "pseudoElement"
    /\ last.threw
    /\ last.error = DuplicateError

\* C4 as stated: element called on the snapshot of element(...).id(...) throws
\* the duplicate error.
C4_ElementAfterIdIsDuplicateError ==
    \A c \in Chains :
        Methods(steps[c]) = <<"element", "id", "element">> =>
            outcome[c] = [status |-> "threw", value |-> DuplicateError]

\* C4 as amended: element called on the snapshot of element(...).id(...)
\* throws the ordering error.
C4_ElementAfterIdIsOrderError ==
    \A c \in Chains :
        Methods(steps[c]) = <<"element", "id", "element">> =>
            outcome[c] = [status |-> "threw", value |-> OrderError]

C4_Witness ==
    \E c \in Chains :
        /\ Methods(steps[c]) = <<"element", "id", "element">>
        /\ outcome[c].status = "threw"

\* The calls of chain c that returned a snapshot.
Succeeded(c) ==
    IF outcome[c].status = "threw"
    THEN SubSeq(steps[c], 1, Len(steps[c]) - 1)
    ELSE steps[c]

\* C5: in a chain of category calls from the entry point, the calls that
\* succeeded hold element, id and pseudoElement at most once each.
C5_SingletonsAtMostOnce ==
    \A c \in Chains : \A category \in Singletons :
        Cardinality({i \in 1..Len(Succeeded(c)) :
                        Succeeded(c)[i].method = category}) <= 1

C5_Witness ==
    \E c \in Chains :
        /\ Methods(steps[c]) = <<"element", "class", "element">>
        /\ outcome[c].status = "threw"

\* C6: combine called on the entry point with two different snapshots returns
\* a snapshot whose stringify() is the text of the first before the call, a
\* space, the combinator, a space, and the text of the second before the call.
C6_CombineJoinsTexts ==
    [][(/\ last'.op = "combine"
        /\ last'.this = cssSelectorBuilder
        /\ last'.selector1 # last'.selector2)
       => (/\ ~last'.threw
           /\ stringify(heap', last'.ret).ret =
                  Get(heap, last'.selector1, "cssCode") \o " " \o last'.combinator
                      \o " " \o Get(heap, last'.selector2, "cssCode"))]_vars

\* The first argument is itself the result of a combine.
C6_Witness ==
    /\ last.op = "combine"
    /\ last.this = cssSelectorBuilder
    /\ ~last.threw
    /\ Get(heap, last.ret, "cssCode") = "a + #a   a"

\* C7: combine never throws, whatever its receiver.
C7_CombineNeverThrows ==
    last.op = "combine" => ~last.threw

\* C8 as stated: no call changes the text or the last-category state of a
\* snapshot that exists.
C8_SnapshotsNeverChange ==
    [][\A o \in DOMAIN heap \ {cssSelectorBuilder} :
           State(heap', o) = State(heap, o)]_vars

\* What chain c comes to when it runs alone, on a heap that holds the entry
\* point only.
RECURSIVE RunAlone(_, _, _)
RunAlone(h, this, s) ==
    IF s = <<>>
    THEN [threw |-> FALSE, error |-> "", heap |-> h, ret |-> this]
    ELSE LET r == CallCategory(h, this, Head(s).method, Head(s).value)
         IN  IF r.threw THEN r ELSE RunAlone(r.heap, r.ret, Tail(s))

Alone(c) == RunAlone(<<EntryPoint>>, cssSelectorBuilder, steps[c])

\* C9: each of two interleaved chains comes to what it comes to alone: the
\* same error, the same text, and while it runs the same snapshot state.
C9_ChainsIndependent ==
    \A c \in Chains :
        LET alone == Alone(c)
        IN  /\ outcome[c].status = "threw" =>
                   (alone.threw /\ alone.error = outcome[c].value)
            /\ outcome[c].status = "running" =>
                   (/\ ~alone.threw
                    /\ State(heap, cur[c]) = State(alone.heap, alone.ret))
            /\ outcome[c].status = "returned" =>
                   (/\ ~alone.threw
                    /\ outcome[c].value = stringify(alone.heap, alone.ret).ret)

\* The two chains took turns: objects 2 and 4 are of chain 1, 3 and 5 of
\* chain 2, and both chains have returned their texts.
C9_Witness ==
    /\ Len(heap) = 5
    /\ cur = [c \in Chains |-> IF c = 1 THEN 4 ELSE 5]
    /\ heap[4].proto = 2
    /\ heap[5].proto = 3
    /\ \A c \in Chains : outcome[c].status = "returned" /\ outcome[c].value # ""

\* C10: a category call, whether it returns or throws, leaves its receiver
\* and the entry point as they were, and a call that throws leaves the whole
\* heap as it was.
C10_CategoryCallLeavesReceiver ==
    [][last'.op = "category"
       => (/\ State(heap', last'.this) = State(heap, last'.this)
           /\ State(heap', cssSelectorBuilder) = State(heap, cssSelectorBuilder)
           /\ last'.threw => heap' = heap
           /\ ~last'.threw => last'.ret \notin DOMAIN heap)]_vars

C10_Witness ==
    /\ last.op = "category"
    /\ last.this # cssSelectorBuilder
    /\ last.threw
    /\ Get(heap, last.this, "cssCode") # ""

Keys(obj) == [i \in 1..Len(obj) |-> obj[i].key]

\* C11: fromJSON(proto, getJSON(obj)) gives the i-th parameter of the
\* constructor the i-th value of obj in key enumeration order; when the keys
\* of obj are the parameters in the same order the result has the fields of
\* obj with their values, and when they are the parameters in another order
\* each field has the value at its parameter's position, not the value of
\* the property of its name.
C11_FromJSONIsPositional ==
    json.pc = "done" =>
        LET obj    == json.obj.props
            params == json.proto.constructor
            res    == json.result.obj
        IN  /\ ~json.result.threw
            /\ Keys(res.props) = params
            /\ \A i \in 1..Len(params) :
                   res.props[i].value = IF i <= Len(obj) THEN obj[i].value ELSE Undefined
            /\ Keys(obj) = params => res = json.obj
            /\ (/\ Keys(obj) # params
                /\ Len(obj) = Len(params)
                /\ \A i \in 1..Len(params) : \E j \in 1..Len(obj) : obj[j].key = params[i])
               => \A i \in 1..Len(params) : GetOwnProperty(res, params[i]) = obj[i].value

\* A property JSON.stringify writes: one whose value is neither undefined
\* nor a function.
IsWritten(p) == p.value.type \notin {"undefined", "function"}

\* The value that comes back from the text of the number, string, boolean
\* or null v: null for NaN and the infinities, 0 for the negative zero, and
\* v itself otherwise.
Carried(v) ==
    IF v.type = "number" /\ v.kind # "finite" THEN JSNull
    ELSE IF v = SignedZero(TRUE) THEN SignedZero(FALSE)
    ELSE v

\* Every property is written and comes back with the value it had.
AllCarried(props) ==
    \A i \in 1..Len(props) : IsWritten(props[i]) /\ Carried(props[i].value) = props[i].value

\* C11 as amended: fromJSON(proto, getJSON(obj)) gives the i-th parameter of
\* the constructor the i-th of the values the text carries, in key
\* enumeration order: a property whose value is undefined or a function is
\* not in the text, so the values after it move one parameter forward, and
\* NaN and the infinities come back as null and the negative zero as 0.
\* When every value of obj comes back as it was, the result has the fields
\* of obj with their values if the keys of obj are the parameters in the
\* same order, and if they are the parameters in another order each field
\* has the value at its parameter's position, not the value of the property
\* of its name.
C11_FromJSONPassesCarriedValues ==
    json.pc = "done" =>
        LET obj     == json.obj.props
            written == SelectSeq(obj, IsWritten)
            params  == json.proto.constructor
            res     == json.result.obj
        IN  /\ ~json.result.threw
            /\ Keys(res.props) = params
            /\ \A i \in 1..Len(params) :
                   res.props[i].value = IF i <= Len(written)
                                        THEN Carried(written[i].value) ELSE Undefined
            /\ (Keys(obj) = params /\ AllCarried(obj)) => res = json.obj
            /\ (/\ Keys(obj) # params
                /\ Len(obj) = Len(params)
                /\ \A i \in 1..Len(params) : \E j \in 1..Len(obj) : obj[j].key = params[i]
                /\ AllCarried(obj))
               => \A i \in 1..Len(params) : GetOwnProperty(res, params[i]) = obj[i].value

\* The object is {width: undefined, height: 20} and the parameters are
\* width, height: the text is {"height":20}, so width gets 20 and height
\* nothing.
C11_Witness ==
    /\ json.pc = "done"
    /\ json.obj = Object(<<[key |-> KeyWidth, value |-> Undefined],
                           [key |-> KeyHeight, value |-> Number(20)]>>)
    /\ json.text = String(Codes(<<"{", "\"", "h", "e", "i", "g", "h", "t", "\"",
                                  ":", "2", "0", "}">>))
    /\ json.proto.constructor = <<KeyWidth, KeyHeight>>
    /\ json.result = Returned(Object(<<[key |-> KeyWidth, value |-> Number(20)],
                                       [key |-> KeyHeight, value |-> Undefined]>>))

\* C12: Rectangle(w, h) returns an object with width w and height h, whose
\* getArea() is w * h, and after an assignment to a field getArea() is the
\* product of the fields as they are then.
C12_AreaOfCurrentFields ==
    /\ rect.op = "Rectangle" =>
           /\ rect.r.obj.width = rect.r.scope.width
           /\ rect.r.obj.height = rect.r.scope.height
    /\ rect.op = "getArea" =>
           /\ rect.area = rect.r.obj.width * rect.r.obj.height
           /\ ~rect.reassigned => rect.area = rect.r.scope.width * rect.r.scope.height

C12_Witness ==
    /\ rect.op = "getArea"
    /\ rect.reassigned
    /\ rect.r.scope.width = 2 /\ rect.r.scope.height = 3
    /\ rect.r.obj.width = -1 /\ rect.r.obj.height = 3
    /\ rect.area = -3

\* The call of chain c that threw, and the last call before it.
Failed(c) == steps[c][Len(steps[c])]

Previous(c) == steps[c][Len(steps[c]) - 1]

\* C13: a chain that calls element, id or pseudoElement a second time after a
\* call of a higher rank gets the ordering error; a chain gets the duplicate
\* error only from a call that repeats the category of the call before it;
\* and no call on any object meets both error conditions.
C13_SeparatedRepeatIsOrderError ==
    /\ \A c \in Chains :
           (/\ Len(steps[c]) >= 2
            /\ Methods(steps[c])[Len(steps[c])] \in Singletons
            /\ \E i \in 1..(Len(steps[c]) - 1) :
                   steps[c][i].method = Failed(c).method
            /\ Rank(Previous(c).method) > Rank(Failed(c).method))
           => outcome[c] = [status |-> "threw", value |-> OrderError]
    /\ \A c \in Chains :
           outcome[c] = [status |-> "threw", value |-> DuplicateError]
           => (/\ Len(steps[c]) >= 2
               /\ Failed(c).method \in Singletons
               /\ Previous(c).method = Failed(c).method)
    /\ \A o \in DOMAIN heap : \A method \in Categories :
           ~(getLastElemError(heap, o, method) /\ incorrectOrder(heap, o, method))

C13_Witness ==
    \E c \in Chains :
        /\ Methods(steps[c]) = <<"id", "class", "id">>
        /\ outcome[c] = [status |-> "threw", value |-> OrderError]

\* C14: the snapshot a combine call returns, on any receiver, holds the text
\* of the first argument, a space, the combinator, a space and the text of the
\* second argument, and nothing else.
C14_CombineTextOnAnyReceiver ==
    [][(last'.op = "combine" /\ ~last'.threw)
       => Get(heap', last'.ret, "cssCode") =
              Get(heap, last'.selector1, "cssCode") \o " " \o last'.combinator
                  \o " " \o Get(heap, last'.selector2, "cssCode")]_vars

\* C15: the snapshot a combine call returns has no last category, name '' and
\* rank -1; a category call on an object without last category returns a
\* snapshot whose text is the receiver's text followed by the fragment.
C15_CombineResultHasNoCategory ==
    [][/\ (last'.op = "combine" /\ ~last'.threw) =>
              /\ Get(heap', last'.ret, "lastSelector") = ""
              /\ Get(heap', last'.ret, "lastOrder") = -1
       /\ (/\ last'.op = "category"
           /\ Get(heap, last'.this, "lastSelector") = ""
           /\ Get(heap, last'.this, "lastOrder") = -1) =>
              /\ ~last'.threw
              /\ Get(heap', last'.ret, "cssCode") =
                     Get(heap, last'.this, "cssCode")
                         \o Fragment([method |-> last'.method, value |-> last'.value])]_vars

\* element called on the result of cssSelectorBuilder.combine(cssSelectorBuilder,
\* '+', cssSelectorBuilder).
C15_Witness ==
    /\ last.op = "category"
    /\ last.method = "element"
    /\ ~last.threw
    /\ Get(heap, last.this, "cssCode") = " + "
    /\ Get(heap, last.ret, "cssCode") = " + a"

\* C16: the entry point always has empty text, rank -1 and no last category
\* name, and a category call on it never throws.
C16_EntryPointStaysEmpty ==
    /\ State(heap, cssSelectorBuilder) = Reset
    /\ last.this = cssSelectorBuilder /\ last.op = "category" => ~last.threw

\* A chain starts from the entry point after an earlier snapshot was made and
\* stringified.
C16_Witness ==
    /\ Len(heap) = 3
    /\ heap[2].proto = cssSelectorBuilder
    /\ State(heap, 2) = Reset
    /\ last.op = "category"
    /\ last.this = cssSelectorBuilder
    /\ last.ret = 3

\* C17: combine stringifies its first argument and then its second: both are
\* reset afterwards, and when they are the same snapshot the snapshot returned
\* holds the text of that snapshot, a space, the combinator and a space.
C17_CombineConsumesArguments ==
    [][last'.op = "combine" =>
           /\ State(heap', last'.selector1) = Reset
           /\ State(heap', last'.selector2) = Reset
           /\ (last'.selector1 = last'.selector2 /\ ~last'.threw) =>
                  Get(heap', last'.ret, "cssCode") =
                      Get(heap, last'.selector1, "cssCode") \o " "
                          \o last'.combinator \o " "]_vars

\* C18: after any sequence of category calls, combine and stringify, in every
\* object the rank is the position of the last category name in the order,
\* and -1 exactly when the name is empty; the object stringify() was called
\* on last has empty text, rank -1 and an empty name.
C18_RankMatchesName ==
    /\ \A o \in DOMAIN heap :
           /\ Get(heap, o, "lastSelector") \in Categories \cup {""}
           /\ Get(heap, o, "lastOrder") =
                  IF Get(heap, o, "lastSelector") = "" THEN -1
                  ELSE Rank(Get(heap, o, "lastSelector"))
    /\ last.op = "stringify" => State(heap, last.this) = Reset

C18_Witness ==
    /\ last.op = "stringify"
    /\ last.text = "a.a"
    /\ \E o \in DOMAIN heap : Get(heap, o, "lastSelector") = "element"

====
